---------------------------- MODULE Spec2Model ----------------------------
(***************************************************************************)
(* Model of the spectroscopy tools of SUSHI_IN_JAPAN:                      *)
(*   - TAS/bata/GUI_ver3.7_calib_support.py  (DataGraphApp: dataset        *)
(*     registry, calibration import, dAbs computation)                     *)
(*   - TAS/bata/Chromex_Calibration_ver1.0.py (two-point calibration)      *)
(*   - TAS/bata/Chromex_Calibration_ver1.4.py (multi-point calibration)    *)
(*                                                                         *)
(* Numbers.  Python floats are modelled by exact rationals <<p, q>> with   *)
(* q > 0 in lowest terms.  None is the pair <<0, 0>>.  A natural logarithm *)
(* is kept symbolic: a log value is NaN, -inf, or ln(p/q)/d kept as the    *)
(* triple (p, q, d), so sums of logarithms are products of their arguments.*)
(*                                                                         *)
(* Text.  The content of a text widget is a sequence of lines, a line is   *)
(* the sequence of its whitespace separated tokens (<<>> is a blank line), *)
(* and a token is <<"num", v>> (float() accepts it and yields v) or        *)
(* <<"bad", 0>> (float() raises ValueError).                               *)
(***************************************************************************)
EXTENDS Integers, Sequences, FiniteSets, TLC

\* ------------------------------------------------------------------ bounds
\* Longest common spectrum length drawn for a computation.
MaxN == 5
\* Number of dataset names the user can type.
MaxNames == 2
\* Largest channel value typed into a calibration row.
MaxCh == 2
\* Rows the multi-point tool can hold (it starts with two).
MaxRows == 3
\* Longest spectrum of arbitrary shape handed to peak detection.
MaxLen == 5
\* Peaks of the comb spectra handed to peak detection.
MaxPeaks == 6

\* --------------------------------------------------------------- rationals
None == <<0, 0>>

Abs(n) == IF n < 0 THEN -n ELSE n

RECURSIVE GCD(_, _)
GCD(m, n) == IF n = 0 THEN m ELSE GCD(n, m % n)

\* p/q in lowest terms with a positive denominator (q # 0).
Rat(p, q) ==
    LET g == GCD(Abs(p), Abs(q))
        s == IF q < 0 THEN -1 ELSE 1
    IN  <<(s * p) \div g, (s * q) \div g>>

RInt(n) == <<n, 1>>
RAdd(u, v) == Rat(u[1] * v[2] + v[1] * u[2], u[2] * v[2])
RSub(u, v) == Rat(u[1] * v[2] - v[1] * u[2], u[2] * v[2])
RMul(u, v) == Rat(u[1] * v[1], u[2] * v[2])
\* v # 0
RDiv(u, v) == Rat(u[1] * v[2], u[2] * v[1])

\* ------------------------------------------------------------- log values
NaN == [k |-> "nan", p |-> 0, q |-> 0, d |-> 0]
NegInf == [k |-> "ninf", p |-> 0, q |-> 0, d |-> 0]
\* ln(p/q)/d for p, q > 0
Ln(p, q, d) ==
    LET r == Rat(p, q) IN [k |-> "fin", p |-> r[1], q |-> r[2], d |-> d]

\* np.log of the float num/den (den # 0): NaN below zero, -inf at zero.
np_log(num, den) ==
    LET r == Rat(num, den)
    IN  IF r[1] < 0 THEN NaN
        ELSE IF r[1] = 0 THEN NegInf
        ELSE Ln(r[1], r[2], 1)

\* ------------------------------------------------------------------- text
Num(v) == <<"num", v>>
Bad == <<"bad", 0>>
IsNum(tok) == tok[1] = "num"

Min(a, b) == IF a < b THEN a ELSE b
Max(a, b) == IF a < b THEN b ELSE a

Labels == <<"DARK_ref", "DARK_sig", "ref", "sig", "ref_p", "sig_p">>
LabelSet == {Labels[i] : i \in 1..6}


\* ------------------------------------------------------------------ state
VARIABLES
    \* DataGraphApp (TAS tool)
    filter_width,   \* module global filter_width
    calib_a,        \* self.calib_a
    calib_b,        \* self.calib_b
    pulse_data,     \* self.pulse_data: ordered dict, a sequence of [name, data]
    pulse_list,     \* self.pulse_list: texts of the list widget's items
    selected,       \* positions of the selected items of pulse_list
    pulse_input,    \* text of self.pulse_input
    text_boxes,     \* self.text_boxes: label -> text
    original_data,  \* self.original_data: label -> text ("" entry absent)
    figure,         \* what the last plot_graph call drew
    last,           \* the last handler run: its name, message boxes, exception
    \* history
    saved,          \* name -> the six texts last saved under it, deleted names dropped
    \* Chromex Calibration (MainWindow of ver1.0 or ver1.4)
    tool,           \* which calibration program runs: "v1.0", "v1.4" ("TAS": none)
    win,            \* the MainWindow object: a, b, dark, calib_rows, spin boxes,
                    \* lbl_range, txt and what self.ax shows
    \* file system
    disk            \* the calibration JSON file save_calib writes

tas_vars == <<filter_width, calib_a, calib_b, pulse_data, pulse_list, selected,
              pulse_input, text_boxes, original_data, figure>>
cal_vars == <<tool, win>>
vars == <<tas_vars, last, saved, cal_vars, disk>>

NoFigure == [shown |-> FALSE, x |-> <<>>, y |-> <<>>, xlabel |-> ""]
\* arg: a name the handler acted on (<<>> when it acted on none).
Done(op, arg, msgs, exc) == [op |-> op, arg |-> arg, msgs |-> msgs, exc |-> exc]

\* ------------------------------------------------- DataGraphApp: calibration
\* _apply_calib testing the truth value of calib_a, as plot_graph's label does.
apply_calib_truthy(a, b, x) ==
    IF a = None \/ a = <<0, 1>> THEN x
    ELSE [i \in 1..Len(x) |-> RAdd(RMul(a, x[i]), b)]

\* _apply_calib: pass-through while calib_a is None, else a*ch + b per element.
apply_calib(a, b, x) ==
    IF a = None THEN x
    ELSE [i \in 1..Len(x) |-> RAdd(RMul(a, x[i]), b)]

\* ------------------------------------------------- DataGraphApp: parse_data
RECURSIVE parse_lines(_, _, _, _)
parse_lines(lines, i, x, y) ==
    IF i > Len(lines) THEN [ok |-> TRUE, x |-> x, y |-> y]
    ELSE LET parts == lines[i]
         IN  IF Len(parts) = 0 THEN parse_lines(lines, i + 1, x, y)
             ELSE IF Len(parts) >= 2 /\ IsNum(parts[1]) /\ IsNum(parts[2])
                  THEN parse_lines(lines, i + 1,
                                   Append(x, RInt(parts[1][2])),
                                   Append(y, parts[2][2]))
                  ELSE [ok |-> FALSE, x |-> <<>>, y |-> <<>>]

\* parse_data handing both columns to _apply_calib.
parse_data_scaling(a, b, txt) ==
    LET r == parse_lines(txt, 1, <<>>, <<>>)
    IN  [warned |-> ~r.ok,
         x |-> IF r.ok THEN apply_calib(a, b, r.x) ELSE <<>>,
         y |-> IF a = None THEN r.y
               ELSE [i \in 1..Len(r.y) |->
                        (a[1] * r.y[i]) \div a[2] + b[1] \div b[2]]]

\* parse_data: (x, y) of a text; on a bad line a warning and ([], []).
parse_data(a, b, txt) ==
    LET r == parse_lines(txt, 1, <<>>, <<>>)
    IN  [warned |-> ~r.ok,
         x |-> IF r.ok THEN apply_calib(a, b, r.x) ELSE <<>>,
         y |-> r.y]

\* ------------------------------------------------ DataGraphApp: computation
\* [p - q for p, q in zip(a, b)]
ZipSub(a, b) == [i \in 1..Min(Len(a), Len(b)) |-> a[i] - b[i]]

\* _norm_abs: np.abs(arr).max() raises ValueError on an empty array.
norm_abs_raises(arr) == Len(arr) = 0

\* _calc_log taking the logarithm of the numerator only.
calc_log_numerator(ref_p, sig, sig_p, ref) ==
    LET n == Min(Min(Len(ref_p), Len(sig)), Min(Len(sig_p), Len(ref)))
    IN  [i \in 1..n |->
            IF ref[i] # 0 /\ sig_p[i] # 0
            THEN np_log(ref_p[i] * sig[i], 1)
            ELSE NaN]

\* _calc_log: one value per element of zip(ref_p, sig, sig_p, ref).
calc_log(ref_p, sig, sig_p, ref) ==
    LET n == Min(Min(Len(ref_p), Len(sig)), Min(Len(sig_p), Len(ref)))
    IN  [i \in 1..n |->
            IF ref[i] # 0 /\ sig_p[i] # 0
            THEN np_log(ref_p[i] * sig[i], sig_p[i] * ref[i])
            ELSE NaN]

\* Sum of the log values a[lo..hi], each times the weight 1/w.
RECURSIVE WinProd(_, _, _, _)
WinProd(a, lo, hi, acc) ==
    IF lo > hi THEN acc
    ELSE WinProd(a, lo + 1, hi, Rat(acc[1] * a[lo].p, acc[2] * a[lo].q))

WinSum(a, lo, hi, w) ==
    IF \E j \in lo..hi : a[j].k = "nan" THEN NaN
    ELSE IF \E j \in lo..hi : a[j].k = "ninf" THEN NegInf
    ELSE LET r == WinProd(a, lo, hi, <<1, 1>>) IN Ln(r[1], r[2], w)

\* Element k (0-based) of the full convolution of a with ones(w)/w:
\* the sum over j with 0 <= j < len(a) and 0 <= k - j < w.
ConvFull(a, w, k) == WinSum(a, Max(0, k - w + 1) + 1, Min(Len(a) - 1, k) + 1, w)

\* A trailing window: the first values of the full convolution.
convolve_same_causal(a, w) ==
    [i \in 1..Max(Len(a), w) |-> ConvFull(a, w, i - 1)]

\* np.convolve(a, np.ones(w)/w, mode='same') for non-empty a: the longer
\* operand gives the length, the shorter one (n) the offset n - 1 - n/2 into
\* the full convolution.
convolve_same(a, w) ==
    LET n == Min(Len(a), w)
        off == n - 1 - (n \div 2)
    IN  [i \in 1..Max(Len(a), w) |-> ConvFull(a, w, (i - 1) + off)]

\* plot_graph without its drawing calls: the exception that ends it, if any,
\* and the curve handed to plt.plot.
plot_graph_result(boxes, a, b, w) ==
    LET dark_ref == parse_data(a, b, boxes["DARK_ref"])
        dark_sig == parse_data(a, b, boxes["DARK_sig"])
        ref      == parse_data(a, b, boxes["ref"])
        sig      == parse_data(a, b, boxes["sig"])
        ref_p    == parse_data(a, b, boxes["ref_p"])
        sig_p    == parse_data(a, b, boxes["sig_p"])
        msgs == SelectSeq(<<dark_ref, dark_sig, ref, sig, ref_p, sig_p>>,
                          LAMBDA r : r.warned)
        nmsg == [i \in 1..Len(msgs) |-> "warning: data error"]
        ref0  == ZipSub(ref.y, dark_ref.y)
        sig0  == ZipSub(sig.y, dark_sig.y)
        refp0 == ZipSub(ref_p.y, dark_ref.y)
        sigp0 == ZipSub(sig_p.y, dark_sig.y)
        diff_ref == ZipSub(refp0, ref0)
        diff_sig == ZipSub(sigp0, sig0)
        log_vals == calc_log(ref_p.y, sig.y, sig_p.y, ref.y)
        smooth == convolve_same(log_vals, w)
    IN  IF norm_abs_raises(diff_ref) \/ norm_abs_raises(diff_sig)
        THEN [exc |-> "ValueError", msgs |-> nmsg, fig |-> NoFigure]
        ELSE IF Len(log_vals) = 0
        THEN [exc |-> "ValueError", msgs |-> nmsg, fig |-> NoFigure]
        ELSE IF Len(dark_ref.x) # Len(smooth)
        THEN [exc |-> "ValueError", msgs |-> nmsg, fig |-> NoFigure]
        ELSE [exc |-> "none", msgs |-> nmsg,
              fig |-> [shown |-> TRUE, x |-> dark_ref.x, y |-> smooth,
                       xlabel |-> IF a # None /\ a # <<0, 1>>
                                  THEN "Wavelength / nm" ELSE "Channel"]]

\* plot_graph dropping the calibration when the computation fails.
plot_graph_uncalibrating ==
    LET r == plot_graph_result(text_boxes, calib_a, calib_b, filter_width)
    IN  /\ figure' = r.fig
        /\ last' = Done("plot_graph", <<>>, r.msgs, r.exc)
        /\ calib_a' = IF r.exc = "none" THEN calib_a ELSE None
        /\ calib_b' = IF r.exc = "none" THEN calib_b ELSE None
        /\ UNCHANGED <<cal_vars, disk, filter_width, pulse_data, pulse_list,
                       selected, pulse_input, text_boxes, original_data, saved>>

plot_graph ==
    LET r == plot_graph_result(text_boxes, calib_a, calib_b, filter_width)
    IN  /\ figure' = r.fig
        /\ last' = Done("plot_graph", <<>>, r.msgs, r.exc)
        /\ UNCHANGED <<cal_vars, disk, filter_width, calib_a, calib_b, pulse_data, pulse_list,
                       selected, pulse_input, text_boxes, original_data, saved>>

\* A JSON number as json.load and float() read it: the value itself (the
\* text json.dump writes for a float is the shortest one that reads back as
\* that float).
JNum(r) == <<"num", r>>
\* No file written yet.
NoFile == [written |-> FALSE, a |-> Bad, b |-> Bad]

\* A calibration file as json.load returns it: a field is a number or is
\* missing / not numeric (float(d[...]) raises).
CalibFiles ==
    [written : {TRUE}, a : {JNum(RInt(0)), JNum(RInt(2)), Bad}, b : {JNum(RInt(1))}]

\* load_calibration keeping coefficients that are already set.
load_calibration_once(d) ==
    /\ IF IsNum(d.a) /\ IsNum(d.b)
       THEN /\ calib_a' = IF calib_a = None THEN d.a[2] ELSE calib_a
            /\ calib_b' = IF calib_a = None THEN d.b[2] ELSE calib_b
            /\ last' = Done("load_calibration", <<>>, <<"info: calib loaded">>, "none")
       ELSE /\ UNCHANGED <<calib_a, calib_b>>
            /\ last' = Done("load_calibration", <<>>, <<"warning: load failed">>, "none")
    /\ UNCHANGED <<cal_vars, disk, filter_width, pulse_data, pulse_list, selected,
                   pulse_input, text_boxes, original_data, figure, saved>>

\* load_calibration assigning calib_a before float(d["b"]) is evaluated.
load_calibration_halfway(d) ==
    /\ calib_a' = IF d.written /\ IsNum(d.a) THEN d.a[2] ELSE calib_a
    /\ IF d.written /\ IsNum(d.a) /\ IsNum(d.b)
       THEN /\ calib_b' = d.b[2]
            /\ last' = Done("load_calibration", <<>>, <<"info: calib loaded">>, "none")
       ELSE /\ UNCHANGED calib_b
            /\ last' = Done("load_calibration", <<>>, <<"warning: load failed">>, "none")
    /\ UNCHANGED <<cal_vars, disk, filter_width, pulse_data, pulse_list, selected,
                   pulse_input, text_boxes, original_data, figure, saved>>

\* load_calibration on a chosen file d: open or json.load raising (no readable
\* file), or float(d["a"]), float(d["b"]) raising, ends in the warning.
load_calibration(d) ==
    /\ IF d.written /\ IsNum(d.a) /\ IsNum(d.b)
       THEN /\ calib_a' = d.a[2]
            /\ calib_b' = d.b[2]
            /\ last' = Done("load_calibration", <<>>, <<"info: calib loaded">>, "none")
       ELSE /\ UNCHANGED <<calib_a, calib_b>>
            /\ last' = Done("load_calibration", <<>>, <<"warning: load failed">>, "none")
    /\ UNCHANGED <<cal_vars, disk, filter_width, pulse_data, pulse_list, selected, pulse_input,
                   text_boxes, original_data, figure, saved>>


\* --------------------------------------------- DataGraphApp: the registry
\* A name is the sequence of its characters.
IsSpace(c) == c = " "

RECURSIVE lstrip(_)
lstrip(t) == IF t # <<>> /\ IsSpace(Head(t)) THEN lstrip(Tail(t)) ELSE t

RECURSIVE rstrip(_)
rstrip(t) ==
    IF t # <<>> /\ IsSpace(t[Len(t)]) THEN rstrip(SubSeq(t, 1, Len(t) - 1)) ELSE t

\* str.strip()
strip(t) == rstrip(lstrip(t))

\* The ordered dict pulse_data as the sequence of its items.
dict_keys(pd) == [i \in 1..Len(pd) |-> pd[i].name]
dict_has(pd, n) == \E i \in 1..Len(pd) : pd[i].name = n
\* pd.get(n, default)
dict_get(pd, n, default) ==
    IF dict_has(pd, n)
    THEN pd[CHOOSE i \in 1..Len(pd) : pd[i].name = n].data
    ELSE default
\* A list of items that is appended to, never replaced in.
dict_set_append(pd, n, v) == Append(pd, [name |-> n, data |-> v])

\* pd[n] = v: an existing key keeps its place, a new one goes last.
dict_set(pd, n, v) ==
    IF dict_has(pd, n)
    THEN [i \in 1..Len(pd) |-> IF pd[i].name = n THEN [name |-> n, data |-> v]
                                                 ELSE pd[i]]
    ELSE Append(pd, [name |-> n, data |-> v])
\* pd.pop(n, None) for every n of ns
dict_pop_all(pd, ns) == SelectSeq(pd, LAMBDA it : it.name \notin ns)

\* update_pulse_list: clear the widget, add one item per key.
update_pulse_list(pd) == dict_keys(pd)

\* The sig_p entry taken from the sig box.
snapshot_mixed(boxes) ==
    [l \in LabelSet |-> IF l = "sig_p" THEN boxes["sig"] ELSE boxes[l]]

\* {lbl: tb.toPlainText() for lbl, tb in self.text_boxes.items()}
snapshot(boxes) == [l \in LabelSet |-> boxes[l]]

\* save_pulse_data.  The registry and the list are updated before the call of
\* plot_delta_abs, a plotting method the file refers to and does not define:
\* the handler then ends normally (method supplied) or with AttributeError.
save_pulse_data ==
    LET name == strip(pulse_input)
    IN  IF name = <<>>
        THEN /\ last' = Done("save_pulse_data", <<>>, <<>>, "none")
             /\ UNCHANGED <<tas_vars, saved, cal_vars, disk>>
        ELSE /\ pulse_data' = dict_set(pulse_data, name, snapshot(text_boxes))
             /\ pulse_list' = update_pulse_list(pulse_data')
             /\ selected' = {}
             /\ saved' = [n \in DOMAIN saved \cup {name} |->
                            IF n = name THEN text_boxes ELSE saved[n]]
             /\ \E e \in {"none", "AttributeError"} :
                    last' = Done("save_pulse_data", name, <<>>, e)
             /\ UNCHANGED <<cal_vars, disk, filter_width, calib_a, calib_b, pulse_input,
                            text_boxes, original_data, figure>>

\* takeItem left out.
take_items_kept(items, sel) == items

\* The list widget after takeItem of the items at the positions sel.
RECURSIVE take_items(_, _)
take_items(items, sel) ==
    IF items = <<>> THEN <<>>
    ELSE LET rest == take_items(SubSeq(items, 1, Len(items) - 1), sel)
         IN  IF Len(items) \in sel THEN rest ELSE Append(rest, items[Len(items)])

\* delete_selected_pulse: pop and takeItem for every selected item.
delete_selected_pulse ==
    LET names == {pulse_list[i] : i \in selected}
    IN  /\ pulse_data' = dict_pop_all(pulse_data, names)
        /\ pulse_list' = take_items(pulse_list, selected)
        /\ selected' = {}
        /\ saved' = [n \in DOMAIN saved \ names |-> saved[n]]
        /\ last' = Done("delete_selected_pulse",
                         IF selected = {} THEN <<>>
                         ELSE pulse_list[CHOOSE i \in selected :
                                            \A j \in selected : i <= j],
                         <<>>, "none")
        /\ UNCHANGED <<cal_vars, disk, filter_width, calib_a, calib_b, pulse_input,
                       text_boxes, original_data, figure>>

\* The loop of load_selected_pulse_data: every label of data goes to its box.
set_boxes(boxes, data) ==
    [l \in LabelSet |-> IF l \in DOMAIN data THEN data[l] ELSE boxes[l]]

\* load_selected_pulse_data from the lookup on: the item text is name.
load_name(name) ==
    LET data == dict_get(pulse_data, name, <<>>)
    IN  /\ text_boxes' = set_boxes(text_boxes, data)
        /\ original_data' = [l \in DOMAIN original_data \cup DOMAIN data |->
                               IF l \in DOMAIN data THEN data[l]
                                                    ELSE original_data[l]]
        /\ last' = Done("load_selected_pulse_data", name, <<>>, "none")

\* load_selected_pulse_data with the items at positions sel selected.
load_selected_pulse_data(sel) ==
    IF Cardinality(sel) # 1
    THEN /\ last' = Done("load_selected_pulse_data", <<>>, <<>>, "none")
         /\ UNCHANGED <<text_boxes, original_data>>
    ELSE load_name(pulse_list[CHOOSE i \in sel : TRUE])

\* A click on item i of the list (MultiSelection toggles it), then the
\* itemClicked handler load_selected_pulse_data.
itemClicked(i) ==
    /\ i \in 1..Len(pulse_list)
    /\ selected' = IF i \in selected THEN selected \ {i} ELSE selected \cup {i}
    /\ load_selected_pulse_data(selected')
    /\ UNCHANGED <<cal_vars, disk, filter_width, calib_a, calib_b, pulse_data, pulse_list,
                   pulse_input, figure, saved>>

\* What the user types.  update_graphs, run on every text change, repaints
\* the mini-plots and the text colour only.
Letters == <<"a", "b", "c", "d">>
NameInputs ==
    {<<>>, <<" ">>, <<"a", " ">>} \cup {<<Letters[i]>> : i \in 1..MaxNames}
EditLabels == {"sig_p"}
EditTexts == {<<>>, << <<Num(0), Num(1)>> >>}
\* The calibration files offered to the registry session.
SessionCalibFiles ==
    {[written |-> TRUE, a |-> JNum(RInt(2)), b |-> JNum(RInt(1))],
     [written |-> TRUE, a |-> Bad, b |-> JNum(RInt(1))]}

edit_pulse_input(t) ==
    /\ pulse_input' = t
    /\ last' = Done("edit", <<>>, <<>>, "none")
    /\ UNCHANGED <<cal_vars, disk, filter_width, calib_a, calib_b, pulse_data, pulse_list,
                   selected, text_boxes, original_data, figure, saved>>

edit_text_box(l, t) ==
    /\ text_boxes' = [text_boxes EXCEPT ![l] = t]
    /\ last' = Done("edit", <<>>, <<>>, "none")
    /\ UNCHANGED <<cal_vars, disk, filter_width, calib_a, calib_b, pulse_data, pulse_list,
                   selected, pulse_input, original_data, figure, saved>>

\* ------------------------------------------------- Chromex Calibration
\* The text of a QLineEdit: empty, or a number float() accepts.
Empty == <<"empty", <<0, 1>>>>
Field(r) == <<"num", r>>
\* np.arange(1344): the number of detector channels
ChCount == 1344
\* 1344 - 1, the last detector channel
ChMax == 1343

\* f"{v:.2f}": v rounded to hundredths, kept as the number of hundredths.
Round2(r) ==
    LET n == 200 * r[1] + r[2]
        d == 2 * r[2]
    IN  IF n >= 0 THEN n \div d ELSE -((-n + d - 1) \div d)

NA == [na |-> TRUE, lo |-> 0, hi |-> 0]
Range(lo, hi) == [na |-> FALSE, lo |-> Round2(lo), hi |-> Round2(hi)]

\* self.dark: None, or the array set_dark stored.
NoDark == [set |-> FALSE, data |-> <<>>]
Dark(data) == [set |-> TRUE, data |-> data]
\* What self.ax shows: nothing yet, the calibration line ("calib"), the
\* detected peaks ("peaks"), the dark spectrum ("dark") or a spectrum.
NoAx == [kind |-> "none", x |-> <<>>, y |-> <<>>, xlabel |-> ""]
CalibLine == [kind |-> "calib", x |-> <<>>, y |-> <<>>, xlabel |-> "Channel"]
\* spin_prom.setValue(50), spin_dist.setValue(100)
PromDefault == 50
DistDefault == 100

NoWin == [a |-> None, b |-> None, dark |-> NoDark, calib_rows |-> <<>>,
          lbl_range |-> NA, txt |-> <<>>, spin_prom |-> PromDefault,
          spin_dist |-> DistDefault, ax |-> NoAx]

\* MainWindow.__init__ of ver1.0: lam1 = 519.2, lam2 = 653.8, ch1, ch2 empty.
InitWin10 ==
    [a |-> None, b |-> None, dark |-> NoDark,
     calib_rows |-> << [lam |-> Field(Rat(5192, 10)), ch |-> Empty],
                       [lam |-> Field(Rat(6538, 10)), ch |-> Empty] >>,
     lbl_range |-> NA, txt |-> <<>>, spin_prom |-> PromDefault,
     spin_dist |-> DistDefault, ax |-> NoAx]

\* MainWindow.__init__ of ver1.4: two empty rows.
InitWin14 ==
    [a |-> None, b |-> None, dark |-> NoDark,
     calib_rows |-> << [lam |-> Empty, ch |-> Empty],
                       [lam |-> Empty, ch |-> Empty] >>,
     lbl_range |-> NA, txt |-> <<>>, spin_prom |-> PromDefault,
     spin_dist |-> DistDefault, ax |-> NoAx]

IsField(f) == f[1] = "num"

\* ver1.0 calibrate: the line through (ch1, lam1) and (ch2, lam2).
calibrate10 ==
    /\ tool = "v1.0"
    /\ LET r1 == win.calib_rows[1]
           r2 == win.calib_rows[2]
       IN  IF ~(IsField(r1.lam) /\ IsField(r2.lam) /\ IsField(r1.ch) /\ IsField(r2.ch))
           THEN /\ last' = Done("calibrate", <<>>, <<"warning: input error">>, "none")
                /\ UNCHANGED win
           ELSE IF r1.ch[2] = r2.ch[2]
           THEN /\ last' = Done("calibrate", <<>>, <<"warning: ch1 = ch2">>, "none")
                /\ UNCHANGED win
           ELSE LET a == RDiv(RSub(r2.lam[2], r1.lam[2]), RSub(r2.ch[2], r1.ch[2]))
                    b == RSub(r1.lam[2], RMul(a, r1.ch[2]))
                IN  /\ win' = [win EXCEPT
                                 !.a = a, !.b = b,
                                 !.lbl_range = Range(RAdd(RMul(a, RInt(0)), b),
                                                     RAdd(RMul(a, RInt(ChMax)), b)),
                                 !.ax = CalibLine]
                    /\ last' = Done("calibrate", <<>>, <<>>, "none")
    /\ UNCHANGED <<tas_vars, saved, tool, disk>>

RECURSIVE RSum(_)
RSum(xs) == IF xs = <<>> THEN <<0, 1>> ELSE RAdd(Head(xs), RSum(Tail(xs)))

\* np.polyfit(lam, ch, 1): the two arrays in the other order.
polyfit1_swapped(ch, lam) ==
    LET n   == RInt(Len(ch))
        sx  == RSum(lam)
        sy  == RSum(ch)
        sxx == RSum([i \in 1..Len(ch) |-> RMul(lam[i], lam[i])])
        sxy == RSum([i \in 1..Len(ch) |-> RMul(ch[i], lam[i])])
        det == RSub(RMul(n, sxx), RMul(sx, sx))
    IN  IF det = <<0, 1>>
        THEN [a |-> RDiv(sy, RMul(RInt(2), RMul(n, lam[1]))),
              b |-> RDiv(sy, RMul(RInt(2), n))]
        ELSE LET a == RDiv(RSub(RMul(n, sxy), RMul(sx, sy)), det)
             IN  [a |-> a, b |-> RDiv(RSub(sy, RMul(a, sx)), n)]

\* np.polyfit(ch, lam, 1) for len(ch) >= 2 and ch[1] # 0.  The columns of
\* the Vandermonde matrix are scaled to unit norm and lstsq solves.  Channels
\* not all equal: the least-squares line.  Channels all equal to c (rank 1,
\* RankWarning, no exception): the minimum-norm solution, which after the
\* rescaling is a = mean(lam)/(2c), b = mean(lam)/2.
polyfit1(ch, lam) ==
    LET n   == RInt(Len(ch))
        sx  == RSum(ch)
        sy  == RSum(lam)
        sxx == RSum([i \in 1..Len(ch) |-> RMul(ch[i], ch[i])])
        sxy == RSum([i \in 1..Len(ch) |-> RMul(ch[i], lam[i])])
        det == RSub(RMul(n, sxx), RMul(sx, sx))
    IN  IF det = <<0, 1>>
        THEN [a |-> RDiv(sy, RMul(RInt(2), RMul(n, ch[1]))),
              b |-> RDiv(sy, RMul(RInt(2), n))]
        ELSE LET a == RDiv(RSub(RMul(n, sxy), RMul(sx, sy)), det)
             IN  [a |-> a, b |-> RDiv(RSub(sy, RMul(a, sx)), n)]

\* ver1.4 calibrate: the rows not left empty, then np.polyfit.
calibrate14 ==
    /\ tool = "v1.4"
    /\ LET used == SelectSeq(win.calib_rows,
                             LAMBDA r : ~(r.lam = Empty /\ r.ch = Empty))
       IN  IF \E i \in 1..Len(used) : ~IsField(used[i].lam) \/ ~IsField(used[i].ch)
           THEN /\ last' = Done("calibrate", <<>>, <<"warning: input error">>, "none")
                /\ UNCHANGED win
           ELSE IF Len(used) < 2
           THEN /\ last' = Done("calibrate", <<>>, <<"warning: two points needed">>, "none")
                /\ UNCHANGED win
           ELSE LET fit == polyfit1([i \in 1..Len(used) |-> used[i].ch[2]],
                                    [i \in 1..Len(used) |-> used[i].lam[2]])
                IN  /\ win' = [win EXCEPT
                                 !.a = fit.a, !.b = fit.b,
                                 !.lbl_range = Range(fit.b,
                                                     RAdd(RMul(fit.a, RInt(ChMax)), fit.b)),
                                 !.ax = CalibLine]
                    /\ last' = Done("calibrate", <<>>, <<>>, "none")
    /\ UNCHANGED <<tas_vars, saved, tool, disk>>

\* ver1.4 _add_calib_row (the "add row" button)
add_calib_row ==
    /\ tool = "v1.4"
    /\ Len(win.calib_rows) < MaxRows
    /\ win' = [win EXCEPT !.calib_rows = Append(@, [lam |-> Empty, ch |-> Empty])]
    /\ last' = Done("_add_calib_row", <<>>, <<>>, "none")
    /\ UNCHANGED <<tas_vars, saved, tool, disk>>

\* What the user types into the rows.
LamTexts == {Empty, Field(Rat(5192, 10)), Field(Rat(6538, 10))}
ChTexts == {Empty} \cup {Field(RInt(c)) : c \in 1..MaxCh}

edit_lam(i, t) ==
    /\ i \in 1..Len(win.calib_rows)
    /\ win' = [win EXCEPT !.calib_rows[i].lam = t]
    /\ last' = Done("edit", <<>>, <<>>, "none")
    /\ UNCHANGED <<tas_vars, saved, tool, disk>>

edit_ch(i, t) ==
    /\ i \in 1..Len(win.calib_rows)
    /\ win' = [win EXCEPT !.calib_rows[i].ch = t]
    /\ last' = Done("edit", <<>>, <<>>, "none")
    /\ UNCHANGED <<tas_vars, saved, tool, disk>>

\* ------------------------------------- Chromex Calibration: _get_text_array
\* str.strip() of the whole text: the blank lines at both ends go.
RECURSIVE text_lstrip(_)
text_lstrip(t) == IF t # <<>> /\ Head(t) = <<>> THEN text_lstrip(Tail(t)) ELSE t

RECURSIVE text_rstrip(_)
text_rstrip(t) ==
    IF t # <<>> /\ t[Len(t)] = <<>> THEN text_rstrip(SubSeq(t, 1, Len(t) - 1)) ELSE t

text_strip(t) == text_rstrip(text_lstrip(t))

\* The result of _get_text_array: the array, or None after a warning, or an
\* exception that leaves the handler.
Parsed(vals) == [ok |-> TRUE, vals |-> vals, msgs |-> <<>>, exc |-> "none"]
ParseWarned(msg) == [ok |-> FALSE, vals |-> <<>>, msgs |-> <<msg>>, exc |-> "none"]
ParseRaised(e) == [ok |-> FALSE, vals |-> <<>>, msgs |-> <<>>, exc |-> e]

\* ver1.0: a line of one token gives that token, a longer one its last
\* token, a line without tokens is refused.
RECURSIVE scan10(_, _, _)
scan10(lines, i, vals) ==
    IF i > Len(lines) THEN Parsed(vals)
    ELSE LET parts == lines[i]
         IN  IF Len(parts) = 1
             THEN IF IsNum(parts[1])
                  THEN scan10(lines, i + 1, Append(vals, parts[1][2]))
                  ELSE ParseWarned("warning: not a number")
             ELSE IF Len(parts) >= 2
             THEN IF IsNum(parts[Len(parts)])
                  THEN scan10(lines, i + 1, Append(vals, parts[Len(parts)][2]))
                  ELSE ParseWarned("warning: no number in column 2")
             ELSE ParseWarned("warning: line not parsed")

get_text_array10(txt) ==
    LET t == text_strip(txt)
    IN  IF t = <<>> THEN ParseWarned("warning: no data") ELSE scan10(t, 1, <<>>)

\* ver1.4: float(parts[-1]) with ValueError caught; parts[-1] of a line
\* without tokens raises IndexError, which is not caught.
RECURSIVE scan14(_, _, _)
scan14(lines, i, vals) ==
    IF i > Len(lines) THEN Parsed(vals)
    ELSE LET parts == lines[i]
         IN  IF Len(parts) = 0 THEN ParseRaised("IndexError")
             ELSE IF IsNum(parts[Len(parts)])
             THEN scan14(lines, i + 1, Append(vals, parts[Len(parts)][2]))
             ELSE ParseWarned("warning: not a number")

get_text_array14(txt) ==
    LET t == text_strip(txt)
    IN  IF t = <<>> THEN ParseWarned("warning: no data") ELSE scan14(t, 1, <<>>)

get_text_array == IF tool = "v1.0" THEN get_text_array10(win.txt)
                                   ELSE get_text_array14(win.txt)

\* ----------------------------------------------- scipy.signal.find_peaks
\* An array x is a sequence; channel c is x[c + 1].
RECURSIVE SortSet(_)
SortSet(S) ==
    IF S = {} THEN <<>>
    ELSE LET m == CHOOSE v \in S : \A u \in S : v <= u
         IN  <<m>> \o SortSet(S \ {m})

Reverse(q) == [i \in 1..Len(q) |-> q[Len(q) + 1 - i]]

\* np.argsort(v) for the short arrays drawn here (insertion sort, stable):
\* the positions of v by ascending value, equal values by position.
RECURSIVE argsort_from(_, _)
argsort_from(v, rest) ==
    IF rest = {} THEN <<>>
    ELSE LET m == CHOOSE p \in rest :
                     \A r \in rest : v[p] < v[r] \/ (v[p] = v[r] /\ p <= r)
         IN  <<m>> \o argsort_from(v, rest \ {m})

argsort(v) == argsort_from(v, 1..Len(v))

\* _local_maxima_1d: the midpoint (rounded down) of every flat stretch with a
\* strictly lower sample on each side; the first and last sample never count.
local_maxima(x) ==
    SortSet({ ((l - 1) + (r - 1)) \div 2 :
                <<l, r>> \in {pr \in (2..Len(x) - 1) \X (2..Len(x) - 1) :
                                /\ pr[1] <= pr[2]
                                /\ \A k \in pr[1]..pr[2] : x[k] = x[pr[1]]
                                /\ x[pr[1] - 1] < x[pr[1]]
                                /\ x[pr[2] + 1] < x[pr[2]]} })

\* The distance selection letting a peak stand one channel too close.
RECURSIVE select_by_peak_distance_short(_, _, _, _, _)
select_by_peak_distance_short(peaks, order, i, distance, keep) ==
    IF i = 0 THEN keep
    ELSE LET j == order[i]
         IN  IF j \notin keep
             THEN select_by_peak_distance_short(peaks, order, i - 1, distance, keep)
             ELSE select_by_peak_distance_short(peaks, order, i - 1, distance,
                     keep \ {k \in 1..Len(peaks) :
                               k # j /\ Abs(peaks[j] - peaks[k]) < distance - 1})

\* _select_by_peak_distance: from the highest priority down, a peak still
\* kept removes every other peak closer than distance to it.
RECURSIVE select_by_peak_distance(_, _, _, _, _)
select_by_peak_distance(peaks, order, i, distance, keep) ==
    IF i = 0 THEN keep
    ELSE LET j == order[i]
         IN  IF j \notin keep
             THEN select_by_peak_distance(peaks, order, i - 1, distance, keep)
             ELSE select_by_peak_distance(peaks, order, i - 1, distance,
                     keep \ {k \in 1..Len(peaks) :
                               k # j /\ Abs(peaks[j] - peaks[k]) < distance})

\* _peak_prominences (wlen None): the peak's height above the higher of the
\* lowest samples reached to the left and to the right before a higher sample.
peak_prominence(x, c) ==
    LET p  == c + 1
        lo == CHOOSE l \in 1..p : /\ \A k \in l..p : x[k] <= x[p]
                                   /\ (l = 1 \/ x[l - 1] > x[p])
        hi == CHOOSE r \in p..Len(x) : /\ \A k \in p..r : x[k] <= x[p]
                                        /\ (r = Len(x) \/ x[r + 1] > x[p])
        left_min  == CHOOSE v \in {x[k] : k \in lo..p} :
                        \A k \in lo..p : v <= x[k]
        right_min == CHOOSE v \in {x[k] : k \in p..hi} :
                        \A k \in p..hi : v <= x[k]
    IN  x[p] - Max(left_min, right_min)

\* find_peaks(x, prominence=prom, distance=dist): the local maxima, then the
\* distance condition, then the prominence condition.
find_peaks(x, prom, dist) ==
    LET cand   == local_maxima(x)
        order  == argsort([i \in 1..Len(cand) |-> x[cand[i] + 1]])
        keep   == select_by_peak_distance(cand, order, Len(cand), dist,
                                          1..Len(cand))
        spaced == SelectSeq([i \in 1..Len(cand) |-> <<i, cand[i]>>],
                            LAMBDA e : e[1] \in keep)
        peaks  == [i \in 1..Len(spaced) |-> spaced[i][2]]
    IN  SelectSeq(peaks, LAMBDA c : peak_prominence(x, c) >= prom)

\* top_k of the two tools
TopK10 == 2
TopK14 == 5

Take(q, n) == SubSeq(q, 1, Min(n, Len(q)))

\* The peaks by ascending intensity.
top_ascending(x, peaks, k) ==
    LET order == argsort([i \in 1..Len(peaks) |-> x[peaks[i] + 1]])
    IN  Take([i \in 1..Len(order) |-> peaks[order[i]]], k)

\* ver1.0: peaks[np.argsort(data[peaks])[-2:]][::-1]
\* ver1.4: peaks[np.argsort(data[peaks])][::-1][:5]
top_peaks(x, peaks, k) ==
    LET order == argsort([i \in 1..Len(peaks) |-> x[peaks[i] + 1]])
    IN  Take(Reverse([i \in 1..Len(order) |-> peaks[order[i]]]), k)

\* ------------------------------------- Chromex Calibration: the handlers
\* peaks' intensities
data_at(x, chs) == [i \in 1..Len(chs) |-> x[chs[i] + 1]]

\* The channel inputs after detect_peaks of ver1.0: ch1, and ch2 if there
\* is a second peak.
fill_rows10(rows, top) ==
    [i \in 1..Len(rows) |->
        IF i <= Len(top) THEN [rows[i] EXCEPT !.ch = Field(RInt(top[i]))]
                         ELSE rows[i]]

\* The rows after detect_peaks of ver1.4: every channel input cleared, rows
\* added up to the number of peaks, then one channel per peak.
fill_rows14(rows, top) ==
    [i \in 1..Max(Len(rows), Len(top)) |->
        [lam |-> IF i <= Len(rows) THEN rows[i].lam ELSE Empty,
         ch  |-> IF i <= Len(top) THEN Field(RInt(top[i])) ELSE Empty]]

\* detect_peaks clearing the channel inputs before it looks for peaks.
detect_peaks_clearing ==
    /\ tool \in {"v1.0", "v1.4"}
    /\ LET r == get_text_array
           cleared == [i \in 1..Len(win.calib_rows) |->
                          [win.calib_rows[i] EXCEPT !.ch = Empty]]
       IN  IF ~r.ok
           THEN /\ last' = Done("detect_peaks", <<>>, r.msgs, r.exc)
                /\ UNCHANGED win
           ELSE LET peaks == find_peaks(r.vals, win.spin_prom, win.spin_dist)
                    top   == top_peaks(r.vals, peaks,
                                       IF tool = "v1.0" THEN TopK10 ELSE TopK14)
                IN  IF Len(peaks) = 0
                    THEN /\ last' = Done("detect_peaks", <<>>,
                                         <<"warning: no peaks">>, "none")
                         /\ win' = [win EXCEPT !.calib_rows = cleared]
                    ELSE /\ win' = [win EXCEPT
                                      !.calib_rows =
                                          IF tool = "v1.0" THEN fill_rows10(@, top)
                                                           ELSE fill_rows14(@, top),
                                      !.ax = [kind |-> "peaks", x |-> top,
                                              y |-> data_at(r.vals, top),
                                              xlabel |-> "Channel"]]
                         /\ last' = Done("detect_peaks", <<>>,
                                         <<"info: peaks detected">>, "none")
    /\ UNCHANGED <<tas_vars, saved, tool, disk>>

\* detect_peaks of both tools: parse, find_peaks with the spin boxes' values,
\* the top_k highest into the channel inputs, the peaks drawn.
detect_peaks ==
    /\ tool \in {"v1.0", "v1.4"}
    /\ LET r == get_text_array
       IN  IF ~r.ok
           THEN /\ last' = Done("detect_peaks", <<>>, r.msgs, r.exc)
                /\ UNCHANGED win
           ELSE LET peaks == find_peaks(r.vals, win.spin_prom, win.spin_dist)
                    top   == top_peaks(r.vals, peaks,
                                       IF tool = "v1.0" THEN TopK10 ELSE TopK14)
                IN  IF Len(peaks) = 0
                    THEN /\ last' = Done("detect_peaks", <<>>,
                                         <<"warning: no peaks">>, "none")
                         /\ UNCHANGED win
                    ELSE /\ win' = [win EXCEPT
                                      !.calib_rows =
                                          IF tool = "v1.0" THEN fill_rows10(@, top)
                                                           ELSE fill_rows14(@, top),
                                      !.ax = [kind |-> "peaks", x |-> top,
                                              y |-> data_at(r.vals, top),
                                              xlabel |-> "Channel"]]
                         /\ last' = Done("detect_peaks", <<>>,
                                         <<"info: peaks detected">>, "none")
    /\ UNCHANGED <<tas_vars, saved, tool, disk>>

\* The x axis of set_dark and plot_spectrum: np.arange(n), in wavelengths
\* once self.a is not None.
cal_axis(a, b, n) ==
    [i \in 1..n |-> IF a = None THEN RInt(i - 1)
                                ELSE RAdd(RMul(a, RInt(i - 1)), b)]
cal_xlabel(a) == IF a = None THEN "Channel" ELSE "Wavelength [nm]"

\* set_dark of both tools
set_dark ==
    /\ tool \in {"v1.0", "v1.4"}
    /\ LET r == get_text_array
       IN  IF ~r.ok
           THEN /\ last' = Done("set_dark", <<>>, r.msgs, r.exc)
                /\ UNCHANGED win
           ELSE /\ win' = [win EXCEPT
                             !.dark = Dark(r.vals),
                             !.ax = [kind |-> "dark",
                                     x |-> cal_axis(win.a, win.b, Len(r.vals)),
                                     y |-> r.vals, xlabel |-> cal_xlabel(win.a)]]
                /\ last' = Done("set_dark", <<>>, <<>>, "none")
    /\ UNCHANGED <<tas_vars, saved, tool, disk>>

\* plot_spectrum subtracting the dark spectrum over the common channels.
plot_spectrum_truncating ==
    /\ tool \in {"v1.0", "v1.4"}
    /\ LET r == get_text_array
       IN  IF ~r.ok
           THEN /\ last' = Done("plot_spectrum", <<>>, r.msgs, r.exc)
                /\ UNCHANGED win
           ELSE /\ win' = [win EXCEPT
                             !.ax = [kind |-> "spectrum",
                                     x |-> cal_axis(win.a, win.b, Len(r.vals)),
                                     y |-> IF win.dark.set
                                           THEN ZipSub(r.vals, win.dark.data)
                                           ELSE r.vals,
                                     xlabel |-> cal_xlabel(win.a)]]
                /\ last' = Done("plot_spectrum", <<>>, <<>>, "none")
    /\ UNCHANGED <<tas_vars, saved, tool, disk>>

\* plot_spectrum of both tools
plot_spectrum ==
    /\ tool \in {"v1.0", "v1.4"}
    /\ LET r == get_text_array
       IN  IF ~r.ok
           THEN /\ last' = Done("plot_spectrum", <<>>, r.msgs, r.exc)
                /\ UNCHANGED win
           ELSE IF win.dark.set /\ Len(r.vals) # Len(win.dark.data)
           THEN /\ last' = Done("plot_spectrum", <<>>,
                                <<"warning: length differs from dark">>, "none")
                /\ UNCHANGED win
           ELSE /\ win' = [win EXCEPT
                             !.ax = [kind |-> "spectrum",
                                     x |-> cal_axis(win.a, win.b, Len(r.vals)),
                                     y |-> IF win.dark.set
                                           THEN ZipSub(r.vals, win.dark.data)
                                           ELSE r.vals,
                                     xlabel |-> cal_xlabel(win.a)]]
                /\ last' = Done("plot_spectrum", <<>>, <<>>, "none")
    /\ UNCHANGED <<tas_vars, saved, tool, disk>>

\* json.dump({'a': self.a, 'b': self.b}, f)
json_dump(a, b) == [written |-> TRUE, a |-> JNum(a), b |-> JNum(b)]

\* ver1.4 save_calib: refused while uncalibrated; else the file dialog, which
\* the user may cancel, and the file written.
save_calib ==
    /\ tool = "v1.4"
    /\ IF win.a = None
       THEN /\ last' = Done("save_calib", <<>>, <<"warning: not calibrated">>, "none")
            /\ UNCHANGED disk
       ELSE \/ /\ disk' = json_dump(win.a, win.b)
               /\ last' = Done("save_calib", <<>>, <<"info: saved">>, "none")
            \/ /\ last' = Done("save_calib", <<>>, <<>>, "none")
               /\ UNCHANGED disk
    /\ UNCHANGED <<tas_vars, saved, cal_vars>>

\* Text pasted into self.txt (or read by open_file).
edit_txt(t) ==
    /\ tool \in {"v1.0", "v1.4"}
    /\ win' = [win EXCEPT !.txt = t]
    /\ last' = Done("edit", <<>>, <<>>, "none")
    /\ UNCHANGED <<tas_vars, saved, tool, disk>>

\* The distance spin box set by the user.
edit_spin_dist(d) ==
    /\ tool \in {"v1.0", "v1.4"}
    /\ win' = [win EXCEPT !.spin_dist = d]
    /\ last' = Done("edit", <<>>, <<>>, "none")
    /\ UNCHANGED <<tas_vars, saved, tool, disk>>

\* ------------------------------------------------ inputs of a computation
\* Intensities of one channel in the order of Labels:
\* <<DARK_ref, DARK_sig, ref, sig, ref_p, sig_p>>.
Samples == { <<0, 0, 2, 1, 2, 1>>,     \* no dark, pumped = unpumped
             <<1, 0, 1, 1, 3, 1>>,     \* ref = DARK_ref # 0
             <<0, 0, 0, 1, 0, 1>> }    \* no dark, pumped = unpumped, ref = 0

LabelIndex(l) == CHOOSE i \in 1..6 : Labels[i] = l

\* The text "0 v1 / 1 v2 / ..." of the first n channels of spectrum l.
MkText(ss, l, n) == [i \in 1..n |-> <<Num(i - 1), Num(ss[i][LabelIndex(l)])>>]

\* Six texts over the channels ss; the box `short` lacks the last line.
MkBoxes(ss, short) ==
    [l \in LabelSet |-> MkText(ss, l, IF l = short THEN Len(ss) - 1 ELSE Len(ss))]

SampleSeqs == UNION {[1..n -> Samples] : n \in 0..MaxN}
\* The spectra that may come one line short.
ShortLabels == {"DARK_ref", "DARK_sig", "ref"}
ComputeInputs ==
    {MkBoxes(ss, "none") : ss \in SampleSeqs}
    \cup {MkBoxes(ss, l) : ss \in SampleSeqs \ {<<>>}, l \in ShortLabels}

\* Odd smoothing widths; the program sets filter_width = 5.
Widths == {1, 3, 5}

EmptyBoxes == [l \in LabelSet |-> <<>>]

\* The state DataGraphApp.__init__ leaves.
InitTAS ==
    /\ filter_width = 5
    /\ calib_a = None
    /\ calib_b = None
    /\ pulse_data = <<>>
    /\ pulse_list = <<>>
    /\ selected = {}
    /\ pulse_input = <<>>
    /\ text_boxes = EmptyBoxes
    /\ original_data = <<>>
    /\ figure = NoFigure
    /\ last = Done("init", <<>>, <<>>, "none")
    /\ saved = <<>>
    /\ tool = "TAS"
    /\ win = NoWin
    /\ disk = NoFile

\* The computation as a function of its inputs: six pasted spectra and a
\* smoothing width, then Plot and Load Calib in any order.
InitCompute ==
    /\ filter_width \in Widths
    /\ calib_a = None
    /\ calib_b = None
    /\ pulse_data = <<>>
    /\ pulse_list = <<>>
    /\ selected = {}
    /\ pulse_input = <<>>
    /\ text_boxes \in ComputeInputs
    /\ original_data = <<>>
    /\ figure = NoFigure
    /\ last = Done("init", <<>>, <<>>, "none")
    /\ saved = <<>>
    /\ tool = "TAS"
    /\ win = NoWin
    /\ disk = NoFile

NextTAS ==
    \/ \E t \in NameInputs : edit_pulse_input(t)
    \/ \E l \in EditLabels, t \in EditTexts : edit_text_box(l, t)
    \/ save_pulse_data
    \/ \E i \in 1..Len(pulse_list) : itemClicked(i)
    \/ delete_selected_pulse
    \/ \E d \in SessionCalibFiles : load_calibration(d)
    \/ plot_graph

Spec == InitTAS /\ [][NextTAS]_vars

\* The registry with its load operation asked for any name: the sessions of
\* Spec without calibration and plotting, and load_name for every name.
QueryNames == {<<Letters[i]>> : i \in 1..MaxNames + 1}

load_by_name(n) ==
    /\ load_name(n)
    /\ UNCHANGED <<cal_vars, disk, filter_width, calib_a, calib_b, pulse_data, pulse_list,
                   selected, pulse_input, figure, saved>>

NextLoad ==
    \/ \E t \in NameInputs : edit_pulse_input(t)
    \/ \E l \in EditLabels, t \in EditTexts : edit_text_box(l, t)
    \/ save_pulse_data
    \/ delete_selected_pulse
    \/ \E i \in 1..Len(pulse_list) : itemClicked(i)
    \/ \E n \in QueryNames : load_by_name(n)

SpecLoad == InitTAS /\ [][NextLoad]_vars

\* One of the two calibration tools is started.
InitCal ==
    /\ tool \in {"v1.0", "v1.4"}
    /\ win = IF tool = "v1.0" THEN InitWin10 ELSE InitWin14
    /\ filter_width = 5
    /\ calib_a = None
    /\ calib_b = None
    /\ pulse_data = <<>>
    /\ pulse_list = <<>>
    /\ selected = {}
    /\ pulse_input = <<>>
    /\ text_boxes = EmptyBoxes
    /\ original_data = <<>>
    /\ figure = NoFigure
    /\ last = Done("init", <<>>, <<>>, "none")
    /\ saved = <<>>
    /\ disk = NoFile

NextCal ==
    \/ \E i \in 1..MaxRows, t \in LamTexts : edit_lam(i, t)
    \/ \E i \in 1..MaxRows, t \in ChTexts : edit_ch(i, t)
    \/ add_calib_row
    \/ calibrate10
    \/ calibrate14

SpecCal == InitCal /\ [][NextCal]_vars

NextCompute ==
    \/ plot_graph
    \/ \E d \in CalibFiles : load_calibration(d)

SpecCompute == InitCompute /\ [][NextCompute]_vars


\* ------------------------------------------- inputs of the calibration tools
\* The fit as a function of the rows: any typed rows, then calibrate.
FitRows == [lam : LamTexts, ch : ChTexts]
FitInputs10 == [1..2 -> FitRows]
FitInputs14 == UNION {[1..n -> FitRows] : n \in 2..MaxRows}

InitFit ==
    /\ tool \in {"v1.0", "v1.4"}
    /\ \E rows \in (IF tool = "v1.0" THEN FitInputs10 ELSE FitInputs14) :
          win = [(IF tool = "v1.0" THEN InitWin10 ELSE InitWin14)
                    EXCEPT !.calib_rows = rows]
    /\ filter_width = 5
    /\ calib_a = None
    /\ calib_b = None
    /\ pulse_data = <<>>
    /\ pulse_list = <<>>
    /\ selected = {}
    /\ pulse_input = <<>>
    /\ text_boxes = EmptyBoxes
    /\ original_data = <<>>
    /\ figure = NoFigure
    /\ last = Done("init", <<>>, <<>>, "none")
    /\ saved = <<>>
    /\ disk = NoFile

NextFit ==
    \/ calibrate10
    \/ calibrate14

SpecFit == InitFit /\ [][NextFit]_vars

\* Peak detection as a function of its inputs: a pasted spectrum and the two
\* spin boxes, then detect_peaks.
\* An intensity-only text, one value per line.
DataText(x) == [i \in 1..Len(x) |-> <<Num(x[i])>>]
\* A "channel intensity" text.
ChannelText(x) == [i \in 1..Len(x) |-> <<Num(i - 1), Num(x[i])>>]
\* Spectra of every shape up to MaxLen samples.
Levels == {0, 1, 2}
AnySpectra == UNION {[1..n -> Levels] : n \in 0..MaxLen}
\* Spectra of MaxPeaks peaks on a zero baseline: 0, h1, 0, h2, ..., 0.
Heights == {1, 2, 3}
Comb(h) == [i \in 1..2 * Len(h) + 1 |-> IF i % 2 = 0 THEN h[i \div 2] ELSE 0]
CombSpectra == {Comb(h) : h \in [1..MaxPeaks -> Heights]}
PeakTexts == {DataText(x) : x \in AnySpectra} \cup {ChannelText(x) : x \in CombSpectra}
\* <<prominence, distance>>: small values, and the spin boxes' defaults.
SpinInputs == ({0, 1, 2} \X {1, 2, 3}) \cup {<<PromDefault, DistDefault>>}

InitPeaks ==
    /\ tool \in {"v1.0", "v1.4"}
    /\ \E t \in PeakTexts, sp \in SpinInputs :
          win = [(IF tool = "v1.0" THEN InitWin10 ELSE InitWin14)
                    EXCEPT !.txt = t, !.spin_prom = sp[1], !.spin_dist = sp[2]]
    /\ filter_width = 5
    /\ calib_a = None
    /\ calib_b = None
    /\ pulse_data = <<>>
    /\ pulse_list = <<>>
    /\ selected = {}
    /\ pulse_input = <<>>
    /\ text_boxes = EmptyBoxes
    /\ original_data = <<>>
    /\ figure = NoFigure
    /\ last = Done("init", <<>>, <<>>, "none")
    /\ saved = <<>>
    /\ disk = NoFile

NextPeaks == detect_peaks

SpecPeaks == InitPeaks /\ [][NextPeaks]_vars

\* A session with one of the calibration tools: spectra pasted, the distance
\* spin box set, wavelengths typed, and every button.
ToolTexts ==
    { <<>>,
      DataText(<<0, 0, 0>>),
      ChannelText(<<0, 60, 0, 70, 0>>),
      << <<Num(60)>>, <<>>, <<Num(0)>> >>,
      << <<Num(0)>>, <<Bad>> >> }
ToolDists == {1, DistDefault}

NextTool ==
    \/ \E t \in ToolTexts : edit_txt(t)
    \/ \E d \in ToolDists : edit_spin_dist(d)
    \/ \E i \in 1..2, t \in LamTexts : edit_lam(i, t)
    \/ detect_peaks
    \/ set_dark
    \/ plot_spectrum
    \/ calibrate10
    \/ calibrate14
    \/ save_calib

SpecTool == InitCal /\ [][NextTool]_vars

\* The multi-point tool and the TAS tool side by side: two points typed,
\* calibrate, save_calib, and the TAS tool's load_calibration of that file.
PersistLam == <<Field(Rat(5192, 10)), Field(Rat(6538, 10))>>

InitPersist ==
    /\ tool = "v1.4"
    /\ win = InitWin14
    /\ filter_width = 5
    /\ calib_a = None
    /\ calib_b = None
    /\ pulse_data = <<>>
    /\ pulse_list = <<>>
    /\ selected = {}
    /\ pulse_input = <<>>
    /\ text_boxes = EmptyBoxes
    /\ original_data = <<>>
    /\ figure = NoFigure
    /\ last = Done("init", <<>>, <<>>, "none")
    /\ saved = <<>>
    /\ disk = NoFile

NextPersist ==
    \/ \E i \in 1..2 : edit_lam(i, PersistLam[i])
    \/ \E i \in 1..2, t \in ChTexts : edit_ch(i, t)
    \/ calibrate14
    \/ save_calib
    \/ disk.written /\ load_calibration(disk)

SpecPersist == InitPersist /\ [][NextPersist]_vars

\* The computation beside the registry: spectra pasted, datasets saved,
\* calibration loaded, Plot pressed.
WithBadLine(boxes, l) == [boxes EXCEPT ![l] = Append(@, <<Num(9), Bad>>)]
\* Samples, and a channel with sig = sig_p = 0.
FrameSamples == Samples \cup { <<0, 0, 2, 0, 2, 0>> }
FrameSeqs == [1..1 -> FrameSamples] \cup [1..2 -> FrameSamples]
FrameInputs ==
    {MkBoxes(ss, l) : ss \in FrameSeqs, l \in {"none", "DARK_sig"}}
    \cup {WithBadLine(MkBoxes(ss, "none"), "ref") : ss \in FrameSeqs}
FrameWidths == {1, 5}

InitFrame ==
    /\ filter_width \in FrameWidths
    /\ calib_a = None
    /\ calib_b = None
    /\ pulse_data = <<>>
    /\ pulse_list = <<>>
    /\ selected = {}
    /\ pulse_input = <<>>
    /\ text_boxes \in FrameInputs
    /\ original_data = <<>>
    /\ figure = NoFigure
    /\ last = Done("init", <<>>, <<>>, "none")
    /\ saved = <<>>
    /\ tool = "TAS"
    /\ win = NoWin
    /\ disk = NoFile

NextFrame ==
    \/ \E t \in NameInputs : edit_pulse_input(t)
    \/ save_pulse_data
    \/ \E d \in SessionCalibFiles : load_calibration(d)
    \/ plot_graph

SpecFrame == InitFrame /\ [][NextFrame]_vars


\* ================================================== claims: computation
\* The intensities of the spectrum pasted in box l (every line "x y").
\* Imports of every kind of file, good and bad, between computations.
ImportFiles ==
    [written : {TRUE}, a : {JNum(RInt(0)), JNum(RInt(2)), Bad},
                       b : {JNum(RInt(1)), JNum(RInt(3)), Bad}]
    \cup {NoFile}

NextImport ==
    \/ \E d \in ImportFiles : load_calibration(d)
    \/ plot_graph

SpecImport == InitFrame /\ [][NextImport]_vars

SpectrumY(l) == [i \in 1..Len(text_boxes[l]) |-> text_boxes[l][i][2][2]]
SpectrumLen(l) == Len(text_boxes[l])
SameLength == \A l \in LabelSet : SpectrumLen(l) = SpectrumLen("DARK_ref")
Plotted == last.op = "plot_graph"
\* The raw trace the program smooths.
RawTrace == calc_log(SpectrumY("ref_p"), SpectrumY("sig"),
                     SpectrumY("sig_p"), SpectrumY("ref"))

\* C1: whenever the six spectra do not all have the same length, compute
\* (plot_graph) signals an error and draws no trace.
C1_LengthMismatchSignalled ==
    (Plotted /\ ~SameLength) =>
        /\ ~figure.shown
        /\ (last.exc # "none" \/ last.msgs # <<>>)

\* C2: the raw transient absorbance of every channel is the logarithm of the
\* ratio of the dark-corrected values, NaN where the dark-corrected ref or
\* sig_p is zero.  (With width 1 the plotted trace is the raw trace.)
C2_ExpectedRaw(i) ==
    LET ref0  == SpectrumY("ref")[i]   - SpectrumY("DARK_ref")[i]
        sig0  == SpectrumY("sig")[i]   - SpectrumY("DARK_sig")[i]
        refp0 == SpectrumY("ref_p")[i] - SpectrumY("DARK_ref")[i]
        sigp0 == SpectrumY("sig_p")[i] - SpectrumY("DARK_sig")[i]
    IN  IF ref0 # 0 /\ sigp0 # 0
        THEN np_log(refp0 * sig0, sigp0 * ref0)
        ELSE NaN

C2_RawFromDarkCorrected ==
    (Plotted /\ SameLength /\ figure.shown /\ filter_width = 1) =>
        \A i \in 1..Len(figure.y) : figure.y[i] = C2_ExpectedRaw(i)

\* C9: for six spectra of one length N >= 1 and every odd width, the
\* smoothed trace has exactly N values.
C9_SmoothedKeepsLength ==
    (Plotted /\ SameLength /\ SpectrumLen("ref") >= 1) =>
        /\ figure.shown
        /\ Len(figure.y) = SpectrumLen("ref")

\* C10: for width w = 2h+1 and N >= w, smoothed value i is the sum of the raw
\* values at the channels j with i-h <= j <= i+h inside the trace, divided by
\* w (no renormalisation at the edges); with w = 1 it is the raw trace.
RECURSIVE C10_Product(_, _, _)
C10_Product(raw, lo, hi) ==
    IF lo > hi THEN <<1, 1>>
    ELSE LET r == C10_Product(raw, lo + 1, hi)
         IN  Rat(raw[lo].p * r[1], raw[lo].q * r[2])

C10_Mean(raw, i, h, w) ==
    LET lo == Max(1, i - h)
        hi == Min(Len(raw), i + h)
        pr == C10_Product(raw, lo, hi)
    IN  IF \E j \in lo..hi : raw[j].k = "nan" THEN NaN
        ELSE IF \E j \in lo..hi : raw[j].k = "ninf" THEN NegInf
        ELSE [k |-> "fin", p |-> pr[1], q |-> pr[2], d |-> w]

C10_ZeroPaddedMean ==
    (Plotted /\ figure.shown /\ Len(RawTrace) >= filter_width) =>
        /\ Len(figure.y) = Len(RawTrace)
        /\ \A i \in 1..Len(figure.y) :
              figure.y[i] = C10_Mean(RawTrace, i, (filter_width - 1) \div 2,
                                     filter_width)
        /\ filter_width = 1 => figure.y = RawTrace

\* An edge channel of a width-5 trace whose window holds a value other than
\* ln 1 has been averaged.
C10_Witness ==
    /\ Plotted /\ figure.shown /\ filter_width = 5
    /\ Len(figure.y) >= 5
    /\ figure.y[1].k = "fin" /\ figure.y[1].p # figure.y[1].q
    /\ figure.y[Len(figure.y)].k = "fin"
    /\ figure.y[Len(figure.y)] # figure.y[1]

\* C11: a zero denominator of the log ratio at channel i (dark-corrected ref
\* or sig_p zero) makes raw_i NaN and never raises: the computation returns
\* one raw value per channel, and every channel with a non-zero denominator
\* has its own log ratio.  (With width 1 the plotted trace is the raw trace.)
C11_Denominator(i) ==
    (SpectrumY("ref")[i] - SpectrumY("DARK_ref")[i])
        * (SpectrumY("sig_p")[i] - SpectrumY("DARK_sig")[i])

C11_SingularityIsNaN ==
    (/\ Plotted /\ SameLength /\ SpectrumLen("ref") >= 1 /\ filter_width = 1
     /\ \E i \in 1..SpectrumLen("ref") : C11_Denominator(i) = 0) =>
        /\ last.exc = "none"
        /\ figure.shown
        /\ Len(figure.y) = SpectrumLen("ref")
        /\ \A i \in 1..SpectrumLen("ref") :
              IF C11_Denominator(i) = 0 THEN figure.y[i] = NaN
              ELSE figure.y[i] = C2_ExpectedRaw(i)

\* The six spectra have one length N >= 1, both dark spectra are zero, and
\* ref_p = ref, sig_p = sig channel by channel.
C12_EqualSpectra ==
    /\ SameLength /\ SpectrumLen("ref") >= 1
    /\ \A i \in 1..SpectrumLen("ref") :
          /\ SpectrumY("DARK_ref")[i] = 0 /\ SpectrumY("DARK_sig")[i] = 0
          /\ SpectrumY("ref_p")[i] = SpectrumY("ref")[i]
          /\ SpectrumY("sig_p")[i] = SpectrumY("sig")[i]
C12_Zero == Ln(1, 1, 1)

\* C12 as stated: with zero darks and ref_p = ref, sig_p = sig, the raw value
\* is 0 at every channel.
C12_EqualSpectraGiveZero ==
    (Plotted /\ C12_EqualSpectra /\ filter_width = 1) =>
        /\ figure.shown
        /\ \A i \in 1..SpectrumLen("ref") : figure.y[i] = C12_Zero

\* C12 as amended: with zero darks and ref_p = ref, sig_p = sig, the raw value
\* is 0 at every channel where ref and sig are both non-zero, and NaN at every
\* channel where ref or sig is zero.
C12_EqualSpectraGiveZeroOrNaN ==
    (Plotted /\ C12_EqualSpectra /\ filter_width = 1) =>
        /\ figure.shown
        /\ Len(figure.y) = SpectrumLen("ref")
        /\ \A i \in 1..SpectrumLen("ref") :
              figure.y[i] = IF SpectrumY("ref")[i] # 0 /\ SpectrumY("sig")[i] # 0
                            THEN C12_Zero ELSE NaN

\* A trace with a channel of value 0 and a channel of value NaN (sig = 0).
C12_Witness ==
    /\ Plotted /\ C12_EqualSpectra /\ filter_width = 1 /\ figure.shown
    /\ Len(figure.y) = 2
    /\ figure.y[1] = C12_Zero /\ SpectrumY("ref")[1] = 2
    /\ figure.y[2] = NaN /\ SpectrumY("sig")[2] = 0

\* C20: a compute call, successful or failed, leaves the registry (with its
\* list) and the calibration coefficients as they were.
C20_ComputeKeepsRegistryAndCalibration ==
    [][last'.op = "plot_graph" =>
          /\ pulse_data' = pulse_data
          /\ pulse_list' = pulse_list
          /\ calib_a' = calib_a
          /\ calib_b' = calib_b]_vars

\* A failed computation (an unparsable spectrum) with a dataset saved and a
\* calibration loaded.
C20_Witness ==
    /\ Plotted /\ last.exc # "none" /\ last.msgs # <<>>
    /\ pulse_data # <<>> /\ calib_a # None

\* C4: apply is the identity while Uncalibrated, for every input including
\* the empty one; with coefficients it maps every channel ch to a*ch + b,
\* keeping order and length.
C4_Channels == [i \in 1..SpectrumLen("DARK_ref") |-> RInt(i - 1)]

C4_ApplyIdentityOrAffine ==
    LET out == parse_data(calib_a, calib_b, text_boxes["DARK_ref"]).x
    IN  /\ Len(out) = Len(C4_Channels)
        /\ calib_a = None => out = C4_Channels
        /\ calib_a # None =>
              \A i \in 1..Len(out) :
                 out[i] = Rat(calib_a[1] * (i - 1) * calib_b[2]
                                 + calib_b[1] * calib_a[2],
                              calib_a[2] * calib_b[2])
        /\ (Plotted /\ figure.shown) => figure.x = out

\* A trace drawn over calibrated channels: channel 1 shown at 2*1 + 1.
C4_Witness ==
    /\ Plotted /\ figure.shown
    /\ calib_a = <<2, 1>> /\ calib_b = <<1, 1>>
    /\ Len(figure.x) >= 2 /\ figure.x[2] = <<3, 1>>


\* ==================================================== claims: registry
KeySet(pd) == {pd[i].name : i \in 1..Len(pd)}
Count(seq, x) == Cardinality({i \in 1..Len(seq) : seq[i] = x})
Loaded == last.op = "load_selected_pulse_data" /\ last.arg # <<>>
Saved == last.op = "save_pulse_data" /\ last.arg # <<>>

C6_SaveLoadRoundTrip ==
    /\ \A n \in DOMAIN saved : dict_get(pulse_data, n, <<>>) = saved[n]
    /\ Loaded => /\ last.arg \in DOMAIN saved
                 /\ text_boxes = saved[last.arg]

\* "a" was saved, then "b", calibration was loaded, and "a" loaded back.
C6_Witness ==
    /\ Loaded /\ last.arg = <<"a">>
    /\ dict_keys(pulse_data) = << <<"a">>, <<"b">> >>
    /\ calib_a # None
    /\ saved[<<"a">>]["sig_p"] # <<>>
    /\ saved[<<"a">>] # saved[<<"b">>]

\* C7: save under an existing name replaces the dataset entirely: the
\* registry holds the new six texts, the name is listed once, and every other
\* dataset is as it was saved.
C7_SaveOverwrites ==
    Saved =>
        /\ dict_get(pulse_data, last.arg, <<>>) = text_boxes
        /\ Count(pulse_list, last.arg) = 1
        /\ Count(dict_keys(pulse_data), last.arg) = 1
        /\ \A m \in DOMAIN saved \ {last.arg} :
              dict_get(pulse_data, m, <<>>) = saved[m]

\* "a" keeps its place before "b" and was saved last: it was saved again.
C7_Witness ==
    /\ Saved /\ last.arg = <<"a">>
    /\ dict_keys(pulse_data) = << <<"a">>, <<"b">> >>
    /\ text_boxes["sig_p"] # <<>>
    /\ saved[<<"b">>]["sig_p"] = <<>>

\* C8: the names listed are the keys of the registry, which are the names
\* saved and not deleted since; delete removes the selected names only and
\* leaves every other dataset unchanged.
C8_ListMatchesRegistry ==
    /\ {pulse_list[i] : i \in 1..Len(pulse_list)} = KeySet(pulse_data)
    /\ KeySet(pulse_data) = DOMAIN saved
    /\ Len(pulse_list) = Cardinality(DOMAIN saved)
    /\ last.op = "delete_selected_pulse" =>
          \A n \in DOMAIN saved : dict_get(pulse_data, n, <<>>) = saved[n]

\* "a" was deleted while "b" stayed.
C8_Witness ==
    /\ last.op = "delete_selected_pulse" /\ last.arg = <<"a">>
    /\ pulse_list = << <<"b">> >>
    /\ saved[<<"b">>]["sig_p"] # <<>>


\* ================================================== claims: calibration
\* The channels of the points the rows hold.
C3_Channels(rows) ==
    {rows[i].ch[2] : i \in {j \in 1..Len(rows) :
                               IsField(rows[j].lam) /\ IsField(rows[j].ch)}}

\* C3: a fit attempted on fewer than two points, or on points whose channels
\* are all identical, leaves the coefficients (a, b) as they were; an
\* Uncalibrated model stays Uncalibrated.  Two-point and multi-point tool.
C3_DegenerateFitKeepsCoefficients ==
    [][(last'.op = "calibrate" /\ Cardinality(C3_Channels(win.calib_rows)) < 2)
          => (win'.a = win.a /\ win'.b = win.b)]_vars

\* The points a fit uses: the rows not left empty.
C13_Points(rows) == SelectSeq(rows, LAMBDA r : ~(r.lam = Empty /\ r.ch = Empty))
Calibrated == last.op = "calibrate" /\ last.msgs = <<>> /\ last.exc = "none"

\* C13: a successful fit on two points (ch1, lam1), (ch2, lam2) with
\* ch1 # ch2 gives a*(ch2 - ch1) = lam2 - lam1 and b = lam1 - a*ch1, so
\* apply(ch1) = lam1 and apply(ch2) = lam2, and the same with the two points
\* in the other order.
C13_TwoPointFitIsExact ==
    LET pts == C13_Points(win.calib_rows)
    IN  (Calibrated /\ Len(pts) = 2 /\ pts[1].ch[2] # pts[2].ch[2]) =>
            LET ch1 == pts[1].ch[2]   lam1 == pts[1].lam[2]
                ch2 == pts[2].ch[2]   lam2 == pts[2].lam[2]
            IN  /\ RMul(win.a, RSub(ch2, ch1)) = RSub(lam2, lam1)
                /\ win.b = RSub(lam1, RMul(win.a, ch1))
                /\ RAdd(RMul(win.a, ch1), win.b) = lam1
                /\ RAdd(RMul(win.a, ch2), win.b) = lam2
                /\ RMul(win.a, RSub(ch1, ch2)) = RSub(lam1, lam2)
                /\ win.b = RSub(lam2, RMul(win.a, ch2))

\* The multi-point tool fitted two points entered with the higher channel
\* first, beside a row left empty.
C13_Witness ==
    /\ Calibrated /\ tool = "v1.4"
    /\ Len(win.calib_rows) = 3 /\ Len(C13_Points(win.calib_rows)) = 2
    /\ C13_Points(win.calib_rows)[1].ch = Field(RInt(2))
    /\ C13_Points(win.calib_rows)[2].ch = Field(RInt(1))
    /\ win.a = Rat(-1346, 10)

\* C14: the range shown is the one of the current coefficients: N/A exactly
\* while uncalibrated, else from b to a*1343 + b (two decimals), in every
\* state, so no step changes (a, b) without the range.
C14_RangeFollowsCoefficients ==
    /\ (win.a = None) <=> (win.b = None)
    /\ win.lbl_range.na <=> (win.a = None)
    /\ win.a # None =>
          /\ win.lbl_range.lo = Round2(win.b)
          /\ win.lbl_range.hi = Round2(RAdd(RMul(win.a, RInt(1343)), win.b))

\* A refused calibrate after a successful one, with a dark spectrum stored.
C14_Witness ==
    /\ last.op = "calibrate" /\ last.msgs # <<>>
    /\ win.a # None /\ ~win.lbl_range.na
    /\ win.dark.set

\* C15: a successful import sets the coefficients to the record's a and b
\* whatever they were before, and the record save_calib writes reads back as
\* the coefficients it was written from.
C15_ImportSetsCoefficients ==
    [][/\ (last'.op = "save_calib" /\ disk' # disk) =>
             /\ disk'.written /\ IsNum(disk'.a) /\ IsNum(disk'.b)
             /\ disk'.a[2] = win.a /\ disk'.b[2] = win.b
       /\ (last'.op = "load_calibration"
              /\ last'.msgs = <<"info: calib loaded">>) =>
             /\ calib_a' = disk.a[2] /\ calib_b' = disk.b[2]]_vars

\* The TAS tool holds the exported slope 134.6 after the calibration tool was
\* fitted again with another slope.
C15_Witness ==
    /\ last.op = "load_calibration" /\ last.msgs = <<"info: calib loaded">>
    /\ calib_a = Rat(1346, 10) /\ calib_a = disk.a[2] /\ calib_b = disk.b[2]
    /\ win.a # None /\ win.a # calib_a

\* ================================================ claims: peak detection
PeaksDetected == last.op = "detect_peaks" /\ last.msgs = <<"info: peaks detected">>
SeqSet(q) == {q[i] : i \in 1..Len(q)}
C16_Apart(chs, d) ==
    \A i \in 1..Len(chs), j \in 1..Len(chs) : i # j => Abs(chs[i] - chs[j]) >= d

\* C16: for every spectrum, prominence and distance, the channels peak
\* detection returns are pairwise at least the distance apart: those of
\* find_peaks, and those drawn and handed to the channel inputs.
C16_PeaksKeepDistance ==
    LET r == get_text_array
    IN  /\ r.ok => C16_Apart(find_peaks(r.vals, win.spin_prom, win.spin_dist),
                             win.spin_dist)
        /\ PeaksDetected =>
              /\ C16_Apart(win.ax.x, win.spin_dist)
              /\ \A i \in 1..Len(win.ax.x) :
                    win.calib_rows[i].ch = Field(RInt(win.ax.x[i]))

\* The distance 3 removed candidates that stand 2 channels apart, and two
\* peaks were returned.
C16_Witness ==
    /\ PeaksDetected /\ win.spin_dist = 3 /\ win.spin_prom = 0
    /\ Len(win.ax.x) >= 2
    /\ Len(local_maxima(get_text_array.vals)) > Len(win.ax.x)
    /\ tool = "v1.4"

\* C17: the channels handed to the calibration inputs are the top_k
\* qualifying peaks by intensity (2 in the two-point tool, 5 in the multi-point
\* tool): at most top_k, by non-increasing intensity, and no qualifying peak
\* left out is strictly higher than one that was kept.
C17_TopPeaksByIntensity ==
    PeaksDetected =>
        LET x     == get_text_array.vals
            peaks == find_peaks(x, win.spin_prom, win.spin_dist)
            k     == IF tool = "v1.0" THEN 2 ELSE 5
            rows  == win.calib_rows
            n     == IF tool = "v1.0"
                     THEN Min(k, Len(peaks))
                     ELSE Cardinality({i \in 1..Len(rows) : rows[i].ch # Empty})
            top   == [i \in 1..n |-> rows[i].ch[2][1]]
        IN  /\ n <= k /\ n = Min(k, Len(peaks))
            /\ \A i \in 1..n : IsField(rows[i].ch) /\ rows[i].ch[2][2] = 1
            /\ SeqSet(top) \subseteq SeqSet(peaks)
            /\ Cardinality(SeqSet(top)) = n
            /\ \A i \in 1..n - 1 : x[top[i] + 1] >= x[top[i + 1] + 1]
            /\ \A q \in SeqSet(peaks) \ SeqSet(top) :
                  \A i \in 1..n : x[q + 1] <= x[top[i] + 1]
            /\ win.ax.x = top

\* The multi-point tool found six peaks of differing height and kept five.
C17_Witness ==
    /\ PeaksDetected /\ tool = "v1.4"
    /\ Len(find_peaks(get_text_array.vals, win.spin_prom, win.spin_dist)) = 6
    /\ Len(win.ax.x) = 5
    /\ win.ax.y[1] > win.ax.y[5]
    /\ Len(win.calib_rows) = 5

\* C18: when no candidate qualifies, peak detection reports "no peaks found"
\* without raising, and the channel inputs, (a, b) and the dark spectrum are
\* after the call what they were before it.
C18_NoPeaksChangesNothing ==
    [][(/\ last'.op = "detect_peaks"
        /\ get_text_array.ok
        /\ find_peaks(get_text_array.vals, win.spin_prom, win.spin_dist) = <<>>) =>
           /\ last'.msgs = <<"warning: no peaks">>
           /\ last'.exc = "none"
           /\ win'.calib_rows = win.calib_rows
           /\ win'.a = win.a /\ win'.b = win.b
           /\ win'.dark = win.dark]_vars

\* No peaks in a flat spectrum, with channels filled in, a calibration fitted
\* and a dark spectrum stored.
C18_Witness ==
    /\ last.op = "detect_peaks" /\ last.msgs = <<"warning: no peaks">>
    /\ win.a # None /\ win.dark.set
    /\ win.calib_rows[1].ch # Empty /\ win.calib_rows[2].ch # Empty

\* A line of the pasted text (blank lines at the ends aside) that is empty or
\* holds a token that is not a number.
C19_HasBadLine(txt) ==
    LET t == text_strip(txt)
    IN  \E i \in 1..Len(t) :
           t[i] = <<>> \/ \E k \in 1..Len(t[i]) : ~IsNum(t[i][k])

\* C19: a text with a line that is not numeric (a non-numeric token, an empty
\* line between data lines) makes the parser report the error and return no
\* spectrum: no uncaught exception, and nothing is stored or drawn from the
\* lines before the bad one.
C19_BadLineReported ==
    [][(/\ last'.op \in {"detect_peaks", "set_dark", "plot_spectrum"}
        /\ C19_HasBadLine(win.txt)) =>
           /\ last'.exc = "none"
           /\ last'.msgs # <<>>
           /\ win' = win]_vars

\* ================================================ claims: calibrated plots
\* What plot_graph computes from the same boxes and width while Uncalibrated.
C21_Uncalibrated == plot_graph_result(text_boxes, None, None, filter_width)

\* C21: calibration changes only the x-axis: after every computation the
\* y-values drawn (and whether a trace is drawn at all) are those the same six
\* spectra and width give while Uncalibrated, whatever coefficients are loaded.
C21_CalibrationKeepsY ==
    Plotted =>
        /\ figure.shown = C21_Uncalibrated.fig.shown
        /\ figure.y = C21_Uncalibrated.fig.y
        /\ last.exc = C21_Uncalibrated.exc

\* A trace of two channels drawn with coefficients loaded: x is transformed,
\* and a y-value is a logarithm other than ln 1.
C21_Witness ==
    /\ Plotted /\ figure.shown /\ calib_a # None
    /\ Len(figure.y) = 2
    /\ figure.x # C21_Uncalibrated.fig.x
    /\ \E i \in 1..2 : figure.y[i].k = "fin" /\ figure.y[i].p # figure.y[i].q

\* C22: the x-axis of the dAbs plot is labelled as wavelength exactly when
\* _apply_calib transformed the x values (calib_a is not None), and as channel
\* exactly when it passed them through, for every coefficient that can be
\* loaded, a = 0 included.
C22_LabelFollowsTransform ==
    (Plotted /\ figure.shown) =>
        /\ (figure.xlabel = "Wavelength / nm") <=> (calib_a # None)
        /\ (figure.xlabel = "Channel") <=> (calib_a = None)

\* The coefficients of the files that load_calibration can read in full.
C23_Readable == {d \in ImportFiles : d.written /\ IsNum(d.a) /\ IsNum(d.b)}

\* a and b are set together or not at all.
C23_BothOrNeither == (calib_a = None) <=> (calib_b = None)

\* An import step either fails and leaves both coefficients as they were, or
\* succeeds and takes both from the file.
C23_ImportStep ==
    last'.op = "load_calibration" =>
        IF last'.msgs = <<"warning: load failed">>
        THEN calib_a' = calib_a /\ calib_b' = calib_b
        ELSE \E d \in C23_Readable : calib_a' = d.a[2] /\ calib_b' = d.b[2]

\* C23: a failed import (file unreadable, a or b missing or not numeric)
\* leaves both coefficients as they were; no step sets a from the file and
\* keeps b from before, and no state has exactly one of a and b set.
C23_ImportIsAllOrNothing == []C23_BothOrNeither /\ [][C23_ImportStep]_vars

\* A failed import after a successful one: the earlier coefficients stand.
C23_Witness ==
    /\ last.op = "load_calibration" /\ last.msgs = <<"warning: load failed">>
    /\ calib_a = RInt(2) /\ calib_b = RInt(3)

\* ================================================ claims: NaN in the window
\* The array line 154 computes from the raw trace.
C24_Smoothed == convolve_same(RawTrace, filter_width)
C24_NaNNear(j) ==
    \E i \in 1..Len(RawTrace) : RawTrace[i] = NaN /\ Abs(i - j) <= 2

\* C24: with the width 5, the smoothed trace is NaN at exactly the channels
\* within 2 channels of a NaN of the raw trace, for every channel of 0..N-1.
C24_NaNWidensByTwo ==
    (Plotted /\ SameLength /\ SpectrumLen("ref") >= 1 /\ filter_width = 5) =>
        \A j \in 1..Len(RawTrace) :
            /\ j <= Len(C24_Smoothed)
            /\ (C24_Smoothed[j] = NaN) <=> C24_NaNNear(j)
            /\ figure.shown => figure.y[j] = C24_Smoothed[j]

\* ================================================ claims: dark subtraction
\* C25: plot_spectrum on a spectrum whose length differs from the stored dark
\* spectrum ends in the length-mismatch warning: nothing is drawn, and the
\* dark spectrum and (a, b) are what they were.
C25_LengthMismatchRejected ==
    [][(/\ last'.op = "plot_spectrum"
        /\ get_text_array.ok
        /\ win.dark.set
        /\ Len(get_text_array.vals) # Len(win.dark.data)) =>
           /\ last'.msgs = <<"warning: length differs from dark">>
           /\ last'.exc = "none"
           /\ win'.ax = win.ax
           /\ win'.dark = win.dark
           /\ win'.a = win.a /\ win'.b = win.b]_vars

\* A rejected spectrum of five channels against a dark spectrum of three, with
\* a calibration fitted; the axes still show what they showed.
C25_Witness ==
    /\ last.op = "plot_spectrum"
    /\ last.msgs = <<"warning: length differs from dark">>
    /\ win.dark.set /\ Len(win.dark.data) = 3
    /\ get_text_array.ok /\ Len(get_text_array.vals) = 5
    /\ win.a # None
    /\ win.ax.kind # "spectrum"

=============================================================================
